---- MODULE Spec2Model ----
(***************************************************************************)
(* A model of google-authorize (src/index.js): the GoogleAuthorize class,  *)
(* its constructor, and the authorize() flow with its callbacks, running   *)
(* against a small file system (the credentials file, the token cache      *)
(* directory and the token cache file), a console and a token endpoint.    *)
(***************************************************************************)
EXTENDS Naturals, Sequences, FiniteSets, TLC

(***************************************************************************)
(* Bounds of the model.                                                    *)
(***************************************************************************)
\* Number of authorize() invocations made on the instance.
NumInv == 3
\* Longest scopes array handed to the constructor.
MaxScopes == 2

(***************************************************************************)
(* JavaScript values.  Every value is a record with a "type" field, so     *)
(* that values of different types can be told apart.                       *)
(***************************************************************************)
Undefined == [type |-> "undefined"]
Null == [type |-> "null"]
Str(s) == [type |-> "string", val |-> s]
Arr(q) == [type |-> "array", val |-> q]

\* Array.isArray(v)
IsArray(v) == v.type = "array"

\* JavaScript truthiness, as used by the || operator.
Truthy(v) ==
  CASE v.type = "undefined" -> FALSE
    [] v.type = "null" -> FALSE
    [] v.type = "string" -> v.val # ""
    [] v.type = "number" -> v.val # 0
    [] OTHER -> TRUE

\* a || b
OrElse(a, b) == IF Truthy(a) THEN a ELSE b

\* String(v) as applied by the + operator with a string operand.
StringOf(v) ==
  CASE v.type = "undefined" -> "undefined"
    [] v.type = "null" -> "null"
    [] v.type = "string" -> v.val
    [] OTHER -> "[object Object]"

(***************************************************************************)
(* The constructor, statement by statement (src/index.js 21-38).           *)
(***************************************************************************)
BaseUrl == "https://www.googleapis.com/auth/"

\* The forEach/push loop of lines 27-33 over an array's elements.
RECURSIVE PushScopes(_, _)
PushScopes(acc, rest) ==
  IF rest = <<>> THEN acc
  ELSE PushScopes(Append(acc, BaseUrl \o Head(rest)), Tail(rest))

\* A loop that skips a scope it has already pushed.
RECURSIVE PushScopesDedup(_, _)
PushScopesDedup(acc, rest) ==
  IF rest = <<>> THEN acc
  ELSE PushScopesDedup(
         IF \E k \in 1..Len(acc) : acc[k] = BaseUrl \o Head(rest)
           THEN acc ELSE Append(acc, BaseUrl \o Head(rest)),
         Tail(rest))

MutScopesOf(scopes) == PushScopesDedup(<<>>, scopes.val)

\* this.SCOPES, lines 27-33: (scopes || []).forEach(push(prefix + scope)).
ScopesOf(scopes) == PushScopes(<<>>, OrElse(scopes, Arr(<<>>)).val)

\* A TOKEN_DIR that takes the first variable that is defined (a ?? chain).
MutTokenDirOf(e) ==
  StringOf(IF e.HOME # Undefined THEN e.HOME
           ELSE IF e.HOMEPATH # Undefined THEN e.HOMEPATH
           ELSE e.USERPROFILE)
    \o "/.credentials/"

\* this.TOKEN_DIR, lines 34-35.
TokenDirOf(env) ==
  StringOf(OrElse(OrElse(env.HOME, env.HOMEPATH), env.USERPROFILE))
    \o "/.credentials/"

\* this.TOKEN_PATH, line 36.
TokenPathOf(tokenDir) == tokenDir \o "googleapis.json"

\* this.credentialsPath, line 37.
CredentialsPathOf(credentialsPath) ==
  StringOf(OrElse(credentialsPath, Str("credentials.json")))

\* The constructor's guard, line 24: it throws unless scopes is an array.
MutCtorThrows(scopes) == ~IsArray(scopes) /\ Truthy(scopes)

CtorThrows(scopes) == ~IsArray(scopes)

\* The object before the constructor has assigned anything.
NoField == "unset"
FreshObject ==
  [SCOPES |-> <<NoField>>, TOKEN_DIR |-> NoField, TOKEN_PATH |-> NoField,
   credentialsPath |-> NoField]

\* The object a completed constructor leaves.
Constructed(scopes, credentialsPath, env) ==
  [SCOPES |-> ScopesOf(scopes),
   TOKEN_DIR |-> TokenDirOf(env),
   TOKEN_PATH |-> TokenPathOf(TokenDirOf(env)),
   credentialsPath |-> CredentialsPathOf(credentialsPath)]

(***************************************************************************)
(* JSON.  A text is a sequence of lexemes; JSONstringify writes a value as *)
(* a text and JSONparse reads a text back, failing on a text that is not   *)
(* one whole value (an empty or truncated file, trailing lexemes).         *)
(***************************************************************************)
Lex(t) == [t |-> t, s |-> ""]
LexStr(s) == [t |-> "str", s |-> s]
Obj(members) == [type |-> "object", val |-> members]
Member(k, v) == [k |-> k, v |-> v]
SyntaxError == [type |-> "SyntaxError"]
ParseFail == [ok |-> FALSE, val |-> Undefined, rest |-> <<>>]

RECURSIVE ParseValue(_), ParseMembers(_, _), ParseElements(_, _)
ParseValue(toks) ==
  IF toks = <<>> THEN ParseFail
  ELSE LET h == Head(toks) IN
    CASE h.t = "null" -> [ok |-> TRUE, val |-> Null, rest |-> Tail(toks)]
      [] h.t = "str" -> [ok |-> TRUE, val |-> Str(h.s), rest |-> Tail(toks)]
      [] h.t = "{" -> ParseMembers(Tail(toks), <<>>)
      [] h.t = "[" -> ParseElements(Tail(toks), <<>>)
      [] OTHER -> ParseFail

ParseMembers(toks, acc) ==
  IF toks = <<>> THEN ParseFail
  ELSE LET h == Head(toks) IN
    CASE h.t = "}" -> [ok |-> TRUE, val |-> Obj(acc), rest |-> Tail(toks)]
      [] h.t = "str" ->
           LET r == ParseValue(Tail(toks)) IN
           IF r.ok THEN ParseMembers(r.rest, Append(acc, Member(h.s, r.val)))
           ELSE ParseFail
      [] OTHER -> ParseFail

ParseElements(toks, acc) ==
  IF toks = <<>> THEN ParseFail
  ELSE IF Head(toks).t = "]"
    THEN [ok |-> TRUE, val |-> Arr(acc), rest |-> Tail(toks)]
    ELSE LET r == ParseValue(toks) IN
         IF r.ok THEN ParseElements(r.rest, Append(acc, r.val)) ELSE ParseFail

\* A parser that accepts a text as soon as it starts with a whole value.
MutJSONparse(text) ==
  LET r == ParseValue(text) IN IF r.ok THEN r.val ELSE SyntaxError

\* JSON.parse(text): the value, or SyntaxError where JSON.parse throws.
JSONparse(text) ==
  LET r == ParseValue(text) IN
  IF r.ok /\ r.rest = <<>> THEN r.val ELSE SyntaxError

RECURSIVE StringifyValue(_), StringifyMembers(_), StringifyElements(_)
StringifyValue(v) ==
  CASE v.type = "null" -> <<Lex("null")>>
    [] v.type = "string" -> <<LexStr(v.val)>>
    [] v.type = "object" -> <<Lex("{")>> \o StringifyMembers(v.val) \o <<Lex("}")>>
    [] v.type = "array" -> <<Lex("[")>> \o StringifyElements(v.val) \o <<Lex("]")>>
    [] OTHER -> <<Lex("null")>>

StringifyMembers(ms) ==
  IF ms = <<>> THEN <<>>
  ELSE <<LexStr(Head(ms).k)>> \o StringifyValue(Head(ms).v)
         \o StringifyMembers(Tail(ms))

StringifyElements(es) ==
  IF es = <<>> THEN <<>>
  ELSE StringifyValue(Head(es)) \o StringifyElements(Tail(es))

\* A serializer that writes only an object's first member.
MutJSONstringify(v) ==
  IF v.type = "object" /\ Len(v.val) > 1
    THEN StringifyValue(Obj(<<Head(v.val)>>))
    ELSE StringifyValue(v)

\* JSON.stringify(v)
JSONstringify(v) == StringifyValue(v)

\* obj[key] for a value that is not undefined or null.
Get(obj, key) ==
  IF obj.type = "object" /\ \E k \in 1..Len(obj.val) : obj.val[k].k = key
    THEN obj.val[CHOOSE k \in 1..Len(obj.val) : obj.val[k].k = key].v
    ELSE Undefined

\* arr[0]
First(arr) ==
  IF arr.type = "array" /\ arr.val # <<>> THEN arr.val[1] ELSE Undefined

\* A property read of undefined or null throws a TypeError.
Nullish(v) == v.type \in {"undefined", "null"}

(***************************************************************************)
(* The state.                                                              *)
(***************************************************************************)
VARIABLES
  env,   \* process.env: HOME, HOMEPATH, USERPROFILE
  ctor,  \* the constructor call: its arguments and its position
  self,  \* the GoogleAuthorize instance (this)
  fs,    \* the file system: credentials file, cache directory, cache file
  inv    \* the authorize() invocations, each with its promises and its log

vars == <<env, ctor, self, fs, inv>>

Invs == 1..NumInv

\* A promise: pending, or settled with a value (the client, or an error).
Pending == [state |-> "pending", value |-> ""]
NoPromise == [state |-> "none", value |-> ""]

\* resolve(value) and reject(error): a promise settles once, later calls
\* are ignored.
Resolve(p, v) ==
  IF p.state = "pending" THEN [state |-> "resolved", value |-> v] ELSE p
Reject(p, e) ==
  IF p.state = "pending" THEN [state |-> "rejected", value |-> e] ELSE p

NoClient ==
  [made |-> FALSE, clientId |-> Undefined, clientSecret |-> Undefined,
   redirectUrl |-> Undefined, credentials |-> Undefined]
NoUrl == [access_type |-> "", scope |-> <<>>]

\* An invocation before authorize() is called.
Idle ==
  [pc |-> "idle", outer |-> NoPromise, inner |-> NoPromise,
   follows |-> FALSE, client |-> NoClient, url |-> NoUrl, line |-> "",
   code |-> "", token |-> Undefined, wdata |-> <<>>, seen |-> <<>>,
   cerr |-> "", terr |-> "", xerr |-> "", werr |-> "", after |-> {},
   pending |-> {}, uncaught |-> "", log |-> <<>>]

\* The invocation record after a callback threw: nothing catches it.
Throw(r, e) ==
  [r EXCEPT !.pc = "done", !.uncaught = e, !.log = Append(@, "throw")]

\* resolve/reject of the inner promise (line 77); the outer promise, once
\* resolved with the inner one (line 58), settles as the inner one does.
ResolveInner(r) ==
  [r EXCEPT !.inner = Resolve(@, "client"),
            !.outer = IF r.follows THEN Resolve(@, "client") ELSE @,
            !.log = Append(@, "resolve:inner")]
RejectInner(r, e) ==
  [r EXCEPT !.inner = Reject(@, e),
            !.outer = IF r.follows THEN Reject(@, e) ELSE @,
            !.log = Append(@, "reject:inner")]

(***************************************************************************)
(* The file system.                                                        *)
(***************************************************************************)
\* The cache directory path holds nothing ("absent"), a directory ("dir"),
\* something that is not a directory ("file"), or nothing that can be
\* created (a missing or read-only parent: "blocked").
DirStates == {"absent", "dir", "file", "blocked"}
NoFile == [exists |-> FALSE, readable |-> FALSE, data |-> <<>>]
File(data) == [exists |-> TRUE, readable |-> TRUE, data |-> data]
Locked(data) == [exists |-> TRUE, readable |-> FALSE, data |-> data]

\* fs.readFile(TOKEN_PATH): the error code, "" when the read succeeds.
ReadCacheErr(f) ==
  CASE f.dir \in {"absent", "blocked"} -> "ENOENT"
    [] f.dir = "file" -> "ENOTDIR"
    [] ~f.cache.exists -> "ENOENT"
    [] ~f.cache.readable -> "EACCES"
    [] OTHER -> ""

\* A mkdir that replaces an existing directory by an empty one.
MutmkdirSync(f) ==
  CASE f.dir = "blocked" -> [fs |-> f, err |-> "EACCES"]
    [] f.dir = "file" -> [fs |-> f, err |-> "EEXIST"]
    [] OTHER ->
         [fs |-> [f EXCEPT !.dir = "dir", !.entries = {}, !.cache = NoFile],
          err |-> ""]

\* fs.mkdirSync(TOKEN_DIR), line 131: the file system after it and the code
\* of the error it throws ("" when it creates the directory).
mkdirSync(f) ==
  CASE f.dir = "absent" -> [fs |-> [f EXCEPT !.dir = "dir"], err |-> ""]
    [] f.dir = "blocked" -> [fs |-> f, err |-> "EACCES"]
    [] OTHER -> [fs |-> f, err |-> "EEXIST"]

\* A write that appends to the file's old content.
MutOverlay(old, new) == old \o new

\* The data of a write at offset 0 over a file's old content.
Overlay(old, new) == new \o SubSeq(old, Len(new) + 1, Len(old))

(***************************************************************************)
(* The inputs the environment supplies.                                    *)
(***************************************************************************)
ScopeNames == {"spreadsheets", "drive"}
\* Token1 has expired and carries no refresh token.
Token1 ==
  Obj(<<Member("access_token", Str("a1")), Member("expiry_date", Str("0"))>>)
Token2 ==
  Obj(<<Member("access_token", Str("a2")), Member("refresh_token", Str("r2")),
        Member("expiry_date", Str("9999999999999"))>>)
\* The tokens the token endpoint may return.
Tokens == {Token1, Token2}
\* The lines the user may enter at the prompt.
Codes == {"4/abc", "4/xyz"}
\* The error of a failed token exchange.
ExchangeError == "invalid_grant"

CredentialsDoc ==
  Obj(<<Member("installed",
          Obj(<<Member("client_id", Str("id")),
                Member("client_secret", Str("secret")),
                Member("redirect_uris",
                       Arr(<<Str("urn:ietf:wg:oauth:2.0:oob"),
                             Str("http://localhost")>>))>>))>>)
\* Credentials files: none, a well-formed one, valid JSON without the
\* "installed" member, the JSON text null, and a truncated text.
CredentialsFiles ==
  {NoFile, File(JSONstringify(CredentialsDoc)), File(JSONstringify(Obj(<<>>))),
   File(JSONstringify(Null)),
   File(SubSeq(JSONstringify(CredentialsDoc), 1, 3))}

\* Cache files found in an existing cache directory: none, a stored token,
\* a truncated text, and a file the process may not open.
CacheFiles ==
  {NoFile, File(JSONstringify(Token1)),
   File(SubSeq(JSONstringify(Token2), 1, 3)), Locked(JSONstringify(Token1))}

FileSystems ==
  {[cred |-> c, dir |-> d, entries |-> {}, cache |-> NoFile] :
     c \in CredentialsFiles, d \in DirStates \ {"dir"}}
  \cup
  {[cred |-> c, dir |-> "dir", entries |-> {"sheets.json"}, cache |-> k] :
     c \in CredentialsFiles, k \in CacheFiles}

(***************************************************************************)
(* authorize() and its callbacks (src/index.js 46-141), as functions of    *)
(* the invocation r they run in, the file system f and their arguments.    *)
(***************************************************************************)
\* A storeToken that issues the write without looking at mkdirSync's error.
MutstoreToken(r, f, token) ==
  LET m == mkdirSync(f) IN
  [inv |-> [r EXCEPT !.pc = "open",
                     !.wdata = JSONstringify(token),
                     !.log = @ \o <<"mkdirSync", "writeFile", "console.log:stored">>],
   fs |-> m.fs, threw |-> FALSE]

\* storeToken(token), lines 129-141: the invocation and the file system
\* after it, and whether it threw.
storeToken(r, f, token) ==
  LET m == mkdirSync(f)
      r1 == [r EXCEPT !.log = Append(@, "mkdirSync")]
  IN IF m.err # "" /\ m.err # "EEXIST"
       THEN [inv |-> Throw(r1, m.err), fs |-> m.fs, threw |-> TRUE]
       ELSE [inv |-> [r1 EXCEPT !.pc = "open",
                                !.wdata = JSONstringify(token),
                                !.pending = @ \cup {"writeFile"},
                                !.log = @ \o <<"writeFile", "console.log:stored">>],
             fs |-> m.fs, threw |-> FALSE]

\* A getNewToken that requests only the first scope.
MutgetNewToken(r) ==
  [r EXCEPT !.pc = "question",
            !.url = [access_type |-> "offline",
                     scope |-> SubSeq(self.SCOPES, 1, 1)],
            !.log = @ \o <<"generateAuthUrl", "console.log:url", "question">>]

\* getNewToken(oauth2Client, resolve, reject), lines 100-110: the URL is
\* generated and printed, and the question is asked.
getNewToken(r) ==
  [r EXCEPT !.pc = "question",
            !.pending = @ \cup {"question"},
            !.url = [access_type |-> "offline", scope |-> self.SCOPES],
            !.log = @ \o <<"generateAuthUrl", "console.log:url", "question">>]

\* A cache-hit branch that treats a token without a refresh token as stale
\* and asks for a new one.
MuttokenFileCallback(r, err, token) ==
  IF err # "" THEN getNewToken(r)
  ELSE IF JSONparse(token) = SyntaxError THEN Throw(r, "SyntaxError")
  ELSE IF Nullish(Get(JSONparse(token), "refresh_token")) THEN getNewToken(r)
  ELSE ResolveInner([r EXCEPT !.pc = "done",
                              !.client.credentials = JSONparse(token)])

\* A cache-hit branch that asks for a new token when the cached one has
\* expired.
MuttokenFileCallbackExpired(r, err, token) ==
  IF err # "" THEN getNewToken(r)
  ELSE IF JSONparse(token) = SyntaxError THEN Throw(r, "SyntaxError")
  ELSE IF Get(JSONparse(token), "expiry_date") = Str("0") THEN getNewToken(r)
  ELSE ResolveInner([r EXCEPT !.pc = "done",
                              !.client.credentials = JSONparse(token)])

\* A callback that asks for a new token only when the cache file is
\* missing, and rejects on any other read error.
MuttokenFileCallbackReject(r, err, token) ==
  IF err = "ENOENT" THEN getNewToken(r)
  ELSE IF err # "" THEN RejectInner([r EXCEPT !.pc = "done"], err)
  ELSE IF JSONparse(token) = SyntaxError THEN Throw(r, "SyntaxError")
  ELSE ResolveInner([r EXCEPT !.pc = "done",
                              !.client.credentials = JSONparse(token)])

\* The callback of the cache file's read, lines 79-86.
tokenFileCallback(r, err, token) ==
  IF err # "" THEN getNewToken(r)
  ELSE IF JSONparse(token) = SyntaxError THEN Throw(r, "SyntaxError")
  ELSE ResolveInner([r EXCEPT !.pc = "done",
                              !.client.credentials = JSONparse(token)])

\* _authorize(credentials), lines 70-88: a TypeError when the document has
\* no installed.redirect_uris; otherwise the client is made, the inner
\* promise is made and the read of the cache file is issued.
_authorize(r, credentials) ==
  LET installed == Get(credentials, "installed")
      uris == Get(installed, "redirect_uris")
  IN IF Nullish(credentials) \/ Nullish(installed) \/ Nullish(uris)
       THEN Throw(r, "TypeError")
       ELSE [r EXCEPT !.pc = "readToken",
                      !.client = [made |-> TRUE,
                                  clientId |-> Get(installed, "client_id"),
                                  clientSecret |-> Get(installed, "client_secret"),
                                  redirectUrl |-> First(uris),
                                  credentials |-> Undefined],
                      !.inner = Pending,
                      !.pending = @ \cup {"readFile:token"},
                      !.log = Append(@, "readFile:token")]

\* Line 58, resolve(this._authorize(JSON.parse(content))): a throw of
\* JSON.parse or of _authorize leaves the callback; otherwise the outer
\* promise is resolved with the inner one.
parseAndAuthorize(r, content) ==
  IF JSONparse(content) = SyntaxError THEN Throw(r, "SyntaxError")
  ELSE LET a == _authorize(r, JSONparse(content)) IN
       IF a.uncaught # "" THEN a
       ELSE [a EXCEPT !.follows = TRUE, !.log = Append(@, "resolve:outer")]

\* A processClientSecrets without the return of line 54.
MutprocessClientSecrets(r, err, content) ==
  IF err # ""
    THEN parseAndAuthorize(
           [r EXCEPT !.outer = Reject(@, err),
                     !.log = @ \o <<"console.error", "reject:outer">>],
           content)
    ELSE parseAndAuthorize(r, content)

\* processClientSecrets(err, content), lines 50-59.
processClientSecrets(r, err, content) ==
  IF err # ""
    THEN [r EXCEPT !.pc = "done",
                   !.outer = Reject(@, err),
                   !.log = @ \o <<"console.error", "reject:outer">>]
    ELSE parseAndAuthorize(r, content)

\* A question callback that exchanges an empty code.
MutquestionCallback(r, code) ==
  [r EXCEPT !.pc = "getToken", !.code = "",
            !.log = @ \o <<"close", "getToken">>]

\* The callback of rl.question, lines 110-112: the interface is closed and
\* the exchange of the code is issued.
questionCallback(r, code) ==
  [r EXCEPT !.pc = "getToken", !.code = code,
            !.pending = @ \cup {"getToken"},
            !.log = @ \o <<"close", "getToken">>]

\* A getToken callback that goes on to resolve after it has rejected.
MutgetTokenCallbackSettlesTwice(r, f, err, token) ==
  LET r0 == [r EXCEPT !.code = ""] IN
  IF err # ""
    THEN [inv |-> ResolveInner(
                    RejectInner([r0 EXCEPT !.pc = "done",
                                           !.log = Append(@, "console.log:error")],
                                err)),
          fs |-> f]
    ELSE LET st == storeToken([r0 EXCEPT !.client.credentials = token], f, token)
         IN IF st.threw THEN [inv |-> st.inv, fs |-> st.fs]
            ELSE [inv |-> ResolveInner(st.inv), fs |-> st.fs]

\* A getToken callback that stores the token after a failed exchange too
\* (no return after reject).
MutgetTokenCallback(r, f, err, token) ==
  LET r0 == [r EXCEPT !.code = ""]
      r1 == IF err # ""
              THEN RejectInner([r0 EXCEPT !.log = Append(@, "console.log:error")],
                               err)
              ELSE r0
      st == storeToken([r1 EXCEPT !.client.credentials = token], f, token)
  IN IF st.threw THEN [inv |-> st.inv, fs |-> st.fs]
     ELSE [inv |-> ResolveInner(st.inv), fs |-> st.fs]

\* The callback of oauth2Client.getToken, lines 112-121.  The closure's
\* code is dead once the callback has run.
getTokenCallback(r, f, err, token) ==
  LET r0 == [r EXCEPT !.code = ""] IN
  IF err # ""
    THEN [inv |-> RejectInner([r0 EXCEPT !.pc = "done",
                                         !.log = Append(@, "console.log:error")],
                              err),
          fs |-> f]
    ELSE LET st == storeToken([r0 EXCEPT !.client.credentials = token], f, token)
         IN IF st.threw THEN [inv |-> st.inv, fs |-> st.fs]
            ELSE [inv |-> ResolveInner(st.inv), fs |-> st.fs]

\* A write callback that hands the error to reject instead of throwing it.
MutwriteFileCallback(r, err) ==
  IF err # "" THEN RejectInner([r EXCEPT !.pc = "done"], err)
  ELSE [r EXCEPT !.pc = "done", !.log = Append(@, "written")]

\* The callback of fs.writeFile, lines 137-139: it throws the error.
writeFileCallback(r, err) ==
  IF err # "" THEN Throw(r, err)
  ELSE [r EXCEPT !.pc = "done", !.log = Append(@, "written")]

(***************************************************************************)
(* The steps: a call of authorize(), and each callback firing with what    *)
(* the file system, the user or the token endpoint delivers.  The fields   *)
(* cerr, terr, seen, line, xerr, token and werr of an invocation record    *)
(* what was delivered to it; after is the set of invocations whose cache   *)
(* write had completed when it was called; pending is the set of its       *)
(* operations that have been issued and whose callback has not run.        *)
(***************************************************************************)
Written(i) == \E k \in 1..Len(inv[i].log) : inv[i].log[k] = "written"

\* The operation op of invocation r has completed: its callback runs.
Completed(r, op) == [r EXCEPT !.pending = @ \ {op}]

\* An authorize() that issues the read of the cache file at once, beside
\* the read of the credentials file.
Mutauthorize(i) ==
  /\ ctor.pc = "done"
  /\ inv[i].pc = "idle"
  /\ i > 1 => inv[i - 1].pc # "idle"
  /\ inv' = [inv EXCEPT ![i] =
       [@ EXCEPT !.pc = "readCreds",
                 !.outer = Pending,
                 !.after = {j \in Invs : Written(j)},
                 !.pending = {"readFile:credentials", "readFile:token"},
                 !.log = @ \o <<"readFile:credentials", "readFile:token">>]]
  /\ UNCHANGED <<env, ctor, self, fs>>

\* authorize(), lines 46-49: the promise is made and the read of the
\* credentials file is issued.  Invocations are numbered in call order.
authorize(i) ==
  /\ ctor.pc = "done"
  /\ inv[i].pc = "idle"
  /\ i > 1 => inv[i - 1].pc # "idle"
  /\ inv' = [inv EXCEPT ![i] = [@ EXCEPT !.pc = "readCreds",
                                         !.outer = Pending,
                                         !.after = {j \in Invs : Written(j)},
                                         !.pending = {"readFile:credentials"},
                                         !.log = Append(@, "readFile:credentials")]]
  /\ UNCHANGED <<env, ctor, self, fs>>

credentialsRead(i) ==
  /\ inv[i].pc = "readCreds"
  /\ LET err == IF fs.cred.exists THEN "" ELSE "ENOENT" IN
     inv' = [inv EXCEPT ![i] =
               [processClientSecrets(Completed(@, "readFile:credentials"),
                                     err, fs.cred.data)
                  EXCEPT !.cerr = err]]
  /\ UNCHANGED <<env, ctor, self, fs>>

tokenFileRead(i) ==
  /\ inv[i].pc = "readToken"
  /\ LET err == ReadCacheErr(fs)
         data == IF err = "" THEN fs.cache.data ELSE <<>>
     IN inv' = [inv EXCEPT ![i] =
                  [tokenFileCallback(Completed(@, "readFile:token"), err, data)
                     EXCEPT !.terr = err, !.seen = data]]
  /\ UNCHANGED <<env, ctor, self, fs>>

lineEntered(i, code) ==
  /\ inv[i].pc = "question"
  /\ inv' = [inv EXCEPT ![i] =
       [questionCallback(Completed(@, "question"), code) EXCEPT !.line = code]]
  /\ UNCHANGED <<env, ctor, self, fs>>

exchangeFailed(i) ==
  /\ inv[i].pc = "getToken"
  /\ LET res == getTokenCallback(Completed(inv[i], "getToken"), fs,
                                 ExchangeError, Undefined) IN
       /\ inv' = [inv EXCEPT ![i] =
                    [res.inv EXCEPT !.xerr = ExchangeError, !.line = ""]]
       /\ fs' = res.fs
  /\ UNCHANGED <<env, ctor, self>>

exchangeDone(i, token) ==
  /\ inv[i].pc = "getToken"
  /\ LET res == getTokenCallback(Completed(inv[i], "getToken"), fs, "", token) IN
       /\ inv' = [inv EXCEPT ![i] =
                    [res.inv EXCEPT !.token = token, !.line = ""]]
       /\ fs' = res.fs
  /\ UNCHANGED <<env, ctor, self>>

\* fs.writeFile(TOKEN_PATH, ...), line 137: the file is opened for writing,
\* which creates or truncates it; a failure to open goes to the callback.
writeOpen(i) ==
  /\ inv[i].pc = "open"
  /\ LET err == CASE fs.dir # "dir" -> "ENOTDIR"
                  [] fs.cache.exists /\ ~fs.cache.readable -> "EACCES"
                  [] OTHER -> ""
     IN IF err # ""
          THEN /\ inv' = [inv EXCEPT ![i] =
                    [writeFileCallback(Completed(@, "writeFile"), err)
                       EXCEPT !.werr = err]]
               /\ fs' = fs
          ELSE /\ inv' = [inv EXCEPT ![i] = [@ EXCEPT !.pc = "write"]]
               /\ fs' = [fs EXCEPT !.cache = File(<<>>)]
  /\ UNCHANGED <<env, ctor, self>>

\* The write of the data at offset 0, the close, and the callback; a failed
\* write (a full disk) leaves the file as it was opened.
writeDone(i, ok) ==
  /\ inv[i].pc = "write"
  /\ LET err == IF ok THEN "" ELSE "ENOSPC" IN
     inv' = [inv EXCEPT ![i] =
               [writeFileCallback(Completed(@, "writeFile"), err)
                  EXCEPT !.werr = err]]
  /\ fs' = IF ok THEN [fs EXCEPT !.cache.data = Overlay(@, inv[i].wdata)] ELSE fs
  /\ UNCHANGED <<env, ctor, self>>

(***************************************************************************)
(* The specification of the authorize() flow: the instance is constructed, *)
(* the file system is any of FileSystems, no invocation has been made.     *)
(***************************************************************************)
HomeEnv ==
  [HOME |-> Str("/home/u"), HOMEPATH |-> Undefined, USERPROFILE |-> Undefined]
Init ==
  /\ env = HomeEnv
  /\ ctor = [pc |-> "done", scopes |-> Arr(<<"drive", "spreadsheets">>),
             credentialsPath |-> Undefined]
  /\ self = Constructed(ctor.scopes, ctor.credentialsPath, env)
  /\ fs \in FileSystems
  /\ inv = [i \in Invs |-> Idle]

Next ==
  \E i \in Invs :
    \/ authorize(i)
    \/ credentialsRead(i)
    \/ tokenFileRead(i)
    \/ \E code \in Codes : lineEntered(i, code)
    \/ exchangeFailed(i)
    \/ \E token \in Tokens : exchangeDone(i, token)
    \/ writeOpen(i)
    \/ \E ok \in BOOLEAN : writeDone(i, ok)

Spec == Init /\ [][Next]_vars

(***************************************************************************)
(* The specification of the constructor: new GoogleAuthorize(scopes,       *)
(* credentialsPath) under an environment, run statement by statement, and  *)
(* the authorize() calls an instance allows once it exists.                *)
(***************************************************************************)
Num(n) == [type |-> "number", val |-> n]
ArraysUpTo(n) == UNION {[1..k -> ScopeNames] : k \in 0..n}
\* The scopes arguments: every array up to MaxScopes names, and values that
\* are not arrays.
ScopeArgs ==
  {Arr(q) : q \in ArraysUpTo(MaxScopes)}
    \cup {Undefined, Null, Str("drive"), Obj(<<>>), Num(7)}
PathArgs == {Undefined, Str(""), Str("secrets/client.json")}
Envs ==
  [HOME : {Undefined, Str(""), Str("/home/u")},
   HOMEPATH : {Undefined, Str(""), Str("/Users/u")},
   USERPROFILE : {Undefined, Str(""), Str("C:/Users/u")}]

InitCtor ==
  /\ env \in Envs
  /\ \E sc \in ScopeArgs, cp \in PathArgs :
       ctor = [pc |-> "call", scopes |-> sc, credentialsPath |-> cp]
  /\ self = FreshObject
  /\ fs = [cred |-> File(JSONstringify(CredentialsDoc)), dir |-> "absent",
           entries |-> {}, cache |-> NoFile]
  /\ inv = [i \in Invs |-> Idle]

\* Lines 24-26: the guard.
ctorGuard ==
  /\ ctor.pc = "call"
  /\ ctor' = [ctor EXCEPT !.pc = IF CtorThrows(ctor.scopes) THEN "threw"
                                 ELSE "SCOPES"]
  /\ UNCHANGED <<env, self, fs, inv>>

\* Lines 27-33.
ctorScopes ==
  /\ ctor.pc = "SCOPES"
  /\ self' = [self EXCEPT !.SCOPES = ScopesOf(ctor.scopes)]
  /\ ctor' = [ctor EXCEPT !.pc = "TOKEN_DIR"]
  /\ UNCHANGED <<env, fs, inv>>

\* Lines 34-35.
ctorTokenDir ==
  /\ ctor.pc = "TOKEN_DIR"
  /\ self' = [self EXCEPT !.TOKEN_DIR = TokenDirOf(env)]
  /\ ctor' = [ctor EXCEPT !.pc = "TOKEN_PATH"]
  /\ UNCHANGED <<env, fs, inv>>

\* Line 36.
ctorTokenPath ==
  /\ ctor.pc = "TOKEN_PATH"
  /\ self' = [self EXCEPT !.TOKEN_PATH = TokenPathOf(self.TOKEN_DIR)]
  /\ ctor' = [ctor EXCEPT !.pc = "credentialsPath"]
  /\ UNCHANGED <<env, fs, inv>>

\* Line 37.
ctorCredentialsPath ==
  /\ ctor.pc = "credentialsPath"
  /\ self' = [self EXCEPT !.credentialsPath =
                CredentialsPathOf(ctor.credentialsPath)]
  /\ ctor' = [ctor EXCEPT !.pc = "done"]
  /\ UNCHANGED <<env, fs, inv>>

NextCtor ==
  \/ ctorGuard
  \/ ctorScopes
  \/ ctorTokenDir
  \/ ctorTokenPath
  \/ ctorCredentialsPath
  \/ \E i \in Invs : authorize(i)

SpecCtor == InitCtor /\ [][NextCtor]_vars

(***************************************************************************)
(* Properties.                                                             *)
(***************************************************************************)
HasIn(log, op) == \E k \in 1..Len(log) : log[k] = op
Has(i, op) == HasIn(inv[i].log, op)
Count(i, op) == Cardinality({k \in 1..Len(inv[i].log) : inv[i].log[k] = op})
Pos(i, op) == CHOOSE k \in 1..Len(inv[i].log) : inv[i].log[k] = op
ResolvedWithClient == [state |-> "resolved", value |-> "client"]
\* The invocation read a cache file that holds valid JSON.
CacheHit(i) == JSONparse(inv[i].seen) # SyntaxError
\* The invocation shows no trace of the interactive path.
NotInteractive(i) ==
  /\ ~Has(i, "generateAuthUrl") /\ ~Has(i, "console.log:url")
  /\ ~Has(i, "question") /\ ~Has(i, "getToken")
  /\ inv[i].url = NoUrl /\ inv[i].line = "" /\ inv[i].code = ""

\* C1: an invocation that read well-formed credentials and a readable cache
\* file holding valid JSON is resolved with the client, whose credentials
\* are the parsed content of the file whatever the token's expiry; it
\* printed no URL, asked no question and exchanged no code.
C1_CacheHit ==
  \A i \in Invs :
    CacheHit(i) =>
      /\ inv[i].client.made
      /\ inv[i].outer = ResolvedWithClient
      /\ inv[i].inner = ResolvedWithClient
      /\ inv[i].client.credentials = JSONparse(inv[i].seen)
      /\ NotInteractive(i)
      /\ inv[i].pc = "done" /\ inv[i].uncaught = ""

C1_Witness ==
  \E i \in Invs :
    /\ CacheHit(i)
    /\ inv[i].outer = ResolvedWithClient
    /\ inv[i].client.credentials = Token1

\* C2 as stated: after a cache miss on a missing file, once the exchange
\* has returned a token the write of its serialization has been issued.
C2_Original ==
  \A i \in Invs :
    (inv[i].terr = "ENOENT" /\ inv[i].token # Undefined) =>
      (Has(i, "writeFile") /\ inv[i].wdata = JSONstringify(inv[i].token))

\* C2, amended: after a cache miss on a missing file the invocation has
\* printed one URL built from every configured scope, then asked one
\* question, then issued one exchange with the line entered; once the
\* exchange has returned a token, and unless the cache directory cannot be
\* created, one write of exactly the token's serialization has been issued
\* and the promise is resolved with the client carrying that token; once
\* that write has completed, and no other invocation has issued a write,
\* the cache file holds exactly that serialization.
C2_CacheMiss ==
  \A i \in Invs :
    inv[i].terr = "ENOENT" =>
      /\ Count(i, "console.log:url") = 1 /\ Count(i, "question") = 1
      /\ inv[i].url = [access_type |-> "offline", scope |-> self.SCOPES]
      /\ Pos(i, "console.log:url") < Pos(i, "question")
      /\ Count(i, "getToken") <= 1
      /\ inv[i].pc = "question" => ~Has(i, "getToken")
      /\ Has(i, "getToken") => Pos(i, "question") < Pos(i, "getToken")
      /\ inv[i].pc = "getToken" =>
           (inv[i].line \in Codes /\ inv[i].code = inv[i].line)
      /\ (inv[i].token # Undefined /\ fs.dir # "blocked") =>
           /\ Count(i, "getToken") = 1 /\ Count(i, "writeFile") = 1
           /\ Pos(i, "getToken") < Pos(i, "writeFile")
           /\ inv[i].wdata = JSONstringify(inv[i].token)
           /\ JSONparse(inv[i].wdata) = inv[i].token
           /\ inv[i].outer = ResolvedWithClient
           /\ inv[i].client.credentials = inv[i].token
      /\ (Written(i) /\ \A j \in Invs \ {i} : ~Has(j, "writeFile")) =>
           fs.cache = File(JSONstringify(inv[i].token))

C2_Witness ==
  \E i \in Invs :
    /\ inv[i].terr = "ENOENT" /\ Written(i)
    /\ Len(self.SCOPES) = 2
    /\ inv[i].token = Token2
    /\ fs.cache = File(JSONstringify(Token2))
    /\ inv[i].outer = ResolvedWithClient

\* C3: an invocation with no callback left to fire, whose callbacks met no
\* failure other than a read error, a JSON parse error or an exchange
\* error, has settled its promise.
C3_AlwaysSettles ==
  \A i \in Invs :
    (inv[i].pc = "done" /\ inv[i].uncaught \in {"", "SyntaxError"}) =>
      inv[i].outer.state \in {"resolved", "rejected"}

\* C4: an invocation whose read of the credentials file failed is rejected
\* with that error, and all it ever did is issue that read, report the
\* error and reject: no read of the cache file, no directory creation, no
\* write, no question, no exchange; the step leaves the file system as it
\* was.
C4_CredentialsReadFails ==
  [][\A i \in Invs :
       /\ inv'[i].cerr # "" =>
            /\ inv'[i].outer = [state |-> "rejected", value |-> inv'[i].cerr]
            /\ inv'[i].log = <<"readFile:credentials", "console.error", "reject:outer">>
            /\ inv'[i].pc = "done" /\ inv'[i].uncaught = ""
            /\ inv'[i].inner = NoPromise /\ ~inv'[i].client.made
            /\ inv'[i].terr = "" /\ inv'[i].seen = <<>> /\ inv'[i].wdata = <<>>
       /\ inv[i].pc = "readCreds" /\ inv'[i].cerr # "" => fs' = fs
       /\ inv[i].cerr # "" => inv'[i] = inv[i]]_vars

C4_Witness ==
  \E i \in Invs :
    /\ inv[i].cerr = "ENOENT"
    /\ inv[i].outer = [state |-> "rejected", value |-> "ENOENT"]

\* C5: an invocation whose token exchange failed is rejected with the
\* exchange error; it issued exactly one exchange, never resolved, never
\* called storeToken (no mkdirSync, no writeFile), and the step leaves the
\* cache directory and the cache file as they were; nothing of the
\* invocation runs afterwards.
C5_ExchangeFails ==
  [][\A i \in Invs :
       /\ inv'[i].xerr # "" =>
            /\ inv'[i].outer = [state |-> "rejected", value |-> inv'[i].xerr]
            /\ inv'[i].inner = [state |-> "rejected", value |-> inv'[i].xerr]
            /\ Cardinality({k \in 1..Len(inv'[i].log) :
                              inv'[i].log[k] = "getToken"}) = 1
            /\ ~HasIn(inv'[i].log, "mkdirSync")
            /\ ~HasIn(inv'[i].log, "writeFile")
            /\ ~HasIn(inv'[i].log, "console.log:stored")
            /\ ~HasIn(inv'[i].log, "resolve:inner")
            /\ inv'[i].wdata = <<>>
            /\ inv'[i].pc = "done" /\ inv'[i].uncaught = ""
       /\ inv[i].pc = "getToken" /\ inv'[i].xerr # "" => fs' = fs
       /\ inv[i].xerr # "" => inv'[i] = inv[i]]_vars

C5_Witness ==
  \E i \in Invs :
    /\ inv[i].xerr = ExchangeError
    /\ inv[i].outer = [state |-> "rejected", value |-> ExchangeError]

\* C6: whenever the promise has resolved after an interactive exchange, the
\* cache file already contains the serialized token.
C6_PersistedBeforeResolved ==
  \A i \in Invs :
    (inv[i].token # Undefined /\ inv[i].outer.state = "resolved") =>
      (fs.cache.exists /\ fs.cache.data = JSONstringify(inv[i].token))

\* C7 as stated: an invocation called after the cache write of an
\* invocation that found no cache file had completed, once finished, has
\* taken the cache-hit path and is resolved with that invocation's token.
C7_Original ==
  \A a \in Invs, b \in Invs :
    (a \in inv[b].after /\ inv[a].terr = "ENOENT" /\ inv[b].pc = "done") =>
      /\ NotInteractive(b)
      /\ inv[b].outer = ResolvedWithClient
      /\ inv[b].client.credentials = inv[a].token

\* C7, amended: the same, provided no invocation other than the first has
\* issued a write of the cache file.
C7_TokenReuse ==
  \A a \in Invs, b \in Invs :
    (/\ a \in inv[b].after /\ inv[a].terr = "ENOENT" /\ inv[b].pc = "done"
     /\ \A c \in Invs \ {a} : ~Has(c, "writeFile")) =>
      /\ NotInteractive(b)
      /\ inv[b].outer = ResolvedWithClient
      /\ inv[b].client.credentials = inv[a].token

C7_Witness ==
  \E a \in Invs, b \in Invs :
    /\ a \in inv[b].after /\ inv[a].terr = "ENOENT"
    /\ inv[a].token = Token2
    /\ inv[b].outer = ResolvedWithClient
    /\ inv[b].client.credentials = Token2
    /\ NotInteractive(b)

\* C8: when storeToken is called while the cache directory exists, it does
\* not throw, it issues the write of the token file, and it changes nothing
\* in the file system; and no step changes an existing cache directory's
\* other entries.
C8_ExistingDirectory ==
  [][/\ fs.dir = "dir" =>
          (fs'.dir = "dir" /\ fs'.entries = fs.entries /\ fs'.cred = fs.cred)
     /\ \A i \in Invs :
          (inv[i].pc = "getToken" /\ inv'[i].token # Undefined /\ fs.dir = "dir") =>
            /\ inv'[i].uncaught = ""
            /\ inv'[i].pc = "open"
            /\ HasIn(inv'[i].log, "writeFile")
            /\ inv'[i].wdata = JSONstringify(inv'[i].token)
            /\ fs' = fs]_vars

C8_Witness ==
  /\ fs.dir = "dir" /\ fs.entries = {"sheets.json"}
  /\ \E i \in Invs : Written(i) /\ fs.cache = File(inv[i].wdata)

\* C9: a constructor called with scopes that is not an array never gets
\* past its guard: it throws, no field of the instance is ever set, and no
\* I/O is ever issued.
C9_NonArrayThrows ==
  ~IsArray(ctor.scopes) =>
    /\ ctor.pc \in {"call", "threw"}
    /\ self = FreshObject
    /\ \A i \in Invs : inv[i] = Idle

C9_Witness == ctor.pc = "threw" /\ ctor.scopes = Null

\* C10: once the constructor has assigned SCOPES from an array, SCOPES has
\* the array's length and its k-th element is the base URL followed by the
\* array's k-th element.
C10_ScopeList ==
  (IsArray(ctor.scopes) /\ ctor.pc \in {"TOKEN_DIR", "TOKEN_PATH", "credentialsPath", "done"}) =>
    /\ Len(self.SCOPES) = Len(ctor.scopes.val)
    /\ \A k \in 1..Len(ctor.scopes.val) :
         self.SCOPES[k] = "https://www.googleapis.com/auth/" \o ctor.scopes.val[k]

C10_Witness ==
  /\ ctor.pc = "done"
  /\ ctor.scopes = Arr(<<"drive", "drive">>)
  /\ self.SCOPES = <<"https://www.googleapis.com/auth/drive",
                     "https://www.googleapis.com/auth/drive">>

\* The home directory variables in the order the constructor tries them.
HomeVars == <<"HOME", "HOMEPATH", "USERPROFILE">>
Defined(v) == v.type # "undefined"
NonEmpty(v) == v.type = "string" /\ v.val # ""
TokenDirAssigned == ctor.pc \in {"TOKEN_PATH", "credentialsPath", "done"}
TokenPathAssigned == ctor.pc \in {"credentialsPath", "done"}

C12_CacheReadErrorGoesInteractive ==
  \A i \in Invs :
    inv[i].terr # "" =>
      /\ Len(inv[i].log) >= 6
      /\ SubSeq(inv[i].log, 1, 6) =
           <<"readFile:credentials", "readFile:token", "resolve:outer",
             "generateAuthUrl", "console.log:url", "question">>
      /\ inv[i].pc = "question" => inv[i].outer = Pending
      /\ inv[i].outer.state = "rejected" =>
           (inv[i].xerr = ExchangeError /\ inv[i].outer.value = ExchangeError)
      /\ inv[i].inner.state = "rejected" =>
           (inv[i].xerr = ExchangeError /\ inv[i].inner.value = ExchangeError)
      /\ inv[i].xerr = "" => ~Has(i, "reject:inner")
      /\ ~Has(i, "reject:outer")

C12_Witness ==
  \E i \in Invs, j \in Invs :
    /\ inv[i].terr = "EACCES" /\ inv[i].pc = "question"
    /\ fs.cache = Locked(JSONstringify(Token1))
    /\ inv[j].terr = "EACCES" /\ inv[j].outer = ResolvedWithClient

\* C13: an invocation never has more than one operation pending, and each
\* operation was issued only after the one before it had completed with
\* the outcome that leads to it: the cache read after a successful
\* credentials read, the question after a failed cache read, the exchange
\* after the user's line, the cache write after a successful exchange.
C13_Sequential ==
  \A i \in Invs :
    /\ Cardinality(inv[i].pending) <= 1
    /\ Has(i, "readFile:token") =>
         /\ "readFile:credentials" \notin inv[i].pending
         /\ inv[i].cerr = "" /\ inv[i].client.made
         /\ Pos(i, "readFile:credentials") < Pos(i, "readFile:token")
    /\ Has(i, "question") =>
         /\ "readFile:token" \notin inv[i].pending
         /\ inv[i].terr # ""
         /\ Pos(i, "readFile:token") < Pos(i, "question")
    /\ Has(i, "getToken") =>
         /\ "question" \notin inv[i].pending
         /\ inv[i].pc = "getToken" => inv[i].line \in Codes
         /\ Pos(i, "question") < Pos(i, "getToken")
    /\ Has(i, "writeFile") =>
         /\ "getToken" \notin inv[i].pending
         /\ inv[i].token \in Tokens /\ inv[i].xerr = ""
         /\ Pos(i, "getToken") < Pos(i, "writeFile")
    /\ inv[i].pc = "done" => inv[i].pending = {}

C13_Witness ==
  \E i \in Invs :
    /\ inv[i].pending = {"writeFile"} /\ inv[i].pc = "write"
    /\ \E j \in Invs : inv[j].pending = {"getToken"}

\* C14: the message 'Token stored to' has been logged only by an invocation
\* whose write of the cache file has completed without error.
C14_LoggedOnCompletion ==
  \A i \in Invs : Has(i, "console.log:stored") => Written(i)

\* The last entries of an invocation's log.
LastOps(i, n) ==
  SubSeq(inv[i].log, Len(inv[i].log) - n + 1, Len(inv[i].log))

\* C15: an invocation whose exchange returned a token while the cache
\* directory could not be created has thrown the error of mkdirSync out of
\* storeToken: it issued no write, did not log that the token was stored,
\* and its promise is not resolved (nor rejected); the file system is as
\* it was.
C15_MkdirFailureThrown ==
  \A i \in Invs :
    (inv[i].token \in Tokens /\ mkdirSync(fs).err \notin {"", "EEXIST"}) =>
      /\ inv[i].uncaught = mkdirSync(fs).err
      /\ LastOps(i, 3) = <<"getToken", "mkdirSync", "throw">>
      /\ ~Has(i, "writeFile") /\ ~Has(i, "console.log:stored")
      /\ ~Has(i, "resolve:inner") /\ ~Has(i, "reject:inner")
      /\ inv[i].outer = Pending /\ inv[i].inner = Pending
      /\ inv[i].pending = {} /\ inv[i].wdata = <<>> /\ inv[i].pc = "done"
      /\ fs.cache = NoFile

C15_Witness ==
  \E i \in Invs :
    /\ fs.dir = "blocked" /\ inv[i].token = Token2
    /\ inv[i].uncaught = "EACCES" /\ inv[i].outer = Pending

\* C16: an invocation that issued the write of the cache file is resolved
\* with the client and stays so, whether the write is still in progress,
\* has succeeded or has failed; a write error has been thrown in the write
\* callback and nothing was rejected.
C16_WriteFailureNotReported ==
  \A i \in Invs :
    /\ Has(i, "writeFile") =>
         /\ inv[i].outer = ResolvedWithClient
         /\ inv[i].inner = ResolvedWithClient
         /\ ~Has(i, "reject:inner") /\ ~Has(i, "reject:outer")
    /\ inv[i].werr # "" =>
         /\ Has(i, "writeFile")
         /\ inv[i].uncaught = inv[i].werr
         /\ LastOps(i, 1) = <<"throw">>
         /\ inv[i].pc = "done"
    /\ (inv[i].token \in Tokens /\ mkdirSync(fs).err \in {"", "EEXIST"}) =>
         Has(i, "writeFile")

C16_Witness ==
  \E i \in Invs, j \in Invs :
    /\ inv[i].werr = "ENOSPC" /\ inv[i].outer = ResolvedWithClient
    /\ inv[j].werr = "" /\ Written(j) /\ inv[j].outer = ResolvedWithClient

\* C17: in every invocation resolve and reject of the outer promise have
\* been called at most once together, and so have those of the inner
\* promise; a settled promise is the outcome of that one call.
C17_SettledAtMostOnce ==
  \A i \in Invs :
    /\ Count(i, "resolve:outer") + Count(i, "reject:outer") <= 1
    /\ Count(i, "resolve:inner") + Count(i, "reject:inner") <= 1
    /\ inv[i].inner.state = "resolved" <=> Has(i, "resolve:inner")
    /\ inv[i].inner.state = "rejected" <=> Has(i, "reject:inner")
    /\ inv[i].outer.state = "rejected" =>
         (Has(i, "reject:outer") \/ Has(i, "reject:inner"))
    /\ inv[i].outer.state = "resolved" => Has(i, "resolve:inner")

C17_Witness ==
  \E j \in Invs, k \in Invs :
    /\ Has(j, "resolve:outer") /\ Has(j, "reject:inner") /\ inv[j].pc = "done"
    /\ Has(k, "resolve:outer") /\ Has(k, "resolve:inner") /\ inv[k].pc = "done"

\* The invocation is on the interactive path and has not finished.
InteractiveInFlight(i) == inv[i].pc \in {"question", "getToken", "open", "write"}
\* The cache file can be read and no interactive invocation is in flight.
CacheSettled ==
  ReadCacheErr(fs) = "" /\ \A i \in Invs : ~InteractiveInFlight(i)

\* C18: a step changes the file system only as the step of an invocation
\* whose cache read failed and whose exchange has returned a token; an
\* invocation whose cache read succeeded never calls mkdirSync or writeFile;
\* and from a state where the cache file is readable and no interactive
\* invocation is in flight, no step changes the file system or leaves such
\* states.
C18_CacheWrittenOnlyAfterMiss ==
  [][/\ fs' # fs =>
          \E i \in Invs :
            /\ inv'[i] # inv[i] /\ \A j \in Invs \ {i} : inv'[j] = inv[j]
            /\ inv[i].terr # "" /\ Has(i, "question")
            /\ inv'[i].token \in Tokens /\ inv'[i].xerr = ""
     /\ \A i \in Invs :
          (inv'[i].pc \notin {"idle", "readCreds", "readToken"}
             /\ inv'[i].terr = "") =>
            /\ ~HasIn(inv'[i].log, "mkdirSync")
            /\ ~HasIn(inv'[i].log, "writeFile")
            /\ inv'[i].wdata = <<>>
     /\ CacheSettled => (fs' = fs /\ CacheSettled')
    ]_vars

C18_Witness ==
  /\ CacheSettled
  /\ fs.cache = File(JSONstringify(Token1))
  /\ \A i \in Invs :
       /\ inv[i].pc = "done" /\ inv[i].terr = ""
       /\ inv[i].seen = JSONstringify(Token1)
       /\ inv[i].outer = ResolvedWithClient

\* Two invocations that both found no readable cache file and whose writes
\* of the cache file have both completed, no other invocation having
\* issued a write.
BothWrote(a, b) ==
  /\ a # b
  /\ inv[a].terr # "" /\ inv[b].terr # ""
  /\ Written(a) /\ Written(b)
  /\ \A c \in Invs \ {a, b} : ~Has(c, "writeFile")
\* Each of the two asked its own question, made its own exchange and is
\* resolved with a client that carries the token of that exchange.
BothInteractive(a, b) ==
  \A i \in {a, b} :
    /\ Count(i, "question") = 1 /\ Count(i, "getToken") = 1
    /\ inv[i].token \in Tokens
    /\ inv[i].client.credentials = inv[i].token
    /\ inv[i].outer = ResolvedWithClient
    /\ inv[i].wdata = JSONstringify(inv[i].token)
\* The text x followed by what of the text y lies beyond x's length.
Mixed(x, y) == x \o SubSeq(y, Len(x) + 1, Len(y))

\* C19 as stated: once both writes have completed the cache file holds one
\* of the two tokens in full.
C19_Original ==
  \A a \in Invs, b \in Invs :
    BothWrote(a, b) =>
      /\ BothInteractive(a, b)
      /\ fs.cache.data \in {JSONstringify(inv[a].token),
                            JSONstringify(inv[b].token)}

\* C19: two overlapping invocations both take the interactive path and each
\* client carries its own token; once both writes have completed the cache
\* file is readable and holds one of the two serialized tokens in full, or
\* the shorter of the two followed by the tail of the longer, which is not
\* valid JSON.
C19_OverlappingWrites ==
  \A a \in Invs, b \in Invs :
    BothWrote(a, b) =>
      /\ BothInteractive(a, b)
      /\ fs.cache.exists /\ fs.cache.readable
      /\ fs.cache.data \in {inv[a].wdata, inv[b].wdata,
                            Mixed(inv[a].wdata, inv[b].wdata),
                            Mixed(inv[b].wdata, inv[a].wdata)}
      /\ fs.cache.data \notin {inv[a].wdata, inv[b].wdata} =>
           /\ Len(inv[a].wdata) # Len(inv[b].wdata)
           /\ Len(fs.cache.data) > Len(inv[a].wdata)
                \/ Len(fs.cache.data) > Len(inv[b].wdata)
           /\ JSONparse(fs.cache.data) = SyntaxError

C19_Witness ==
  \E a \in Invs, b \in Invs :
    /\ BothWrote(a, b)
    /\ inv[a].token = Token2 /\ inv[b].token = Token1
    /\ fs.cache.data = Mixed(JSONstringify(Token1), JSONstringify(Token2))
    /\ fs.cache.data \notin {JSONstringify(Token1), JSONstringify(Token2)}

====
